---- MODULE Spec2Model ----
(***************************************************************************)
(* Model of rust/tw_bitcoin/src/ordinals.rs: the Ordinals Inscription      *)
(* envelope script (create_envelope), its single-leaf Taproot commitment   *)
(* and the OrdinalsInscription value built from both.                      *)
(*                                                                         *)
(* Byte strings are sequences of 0..255.  A caller slice &[u8] is a record *)
(* [blocks, bytes]: its length is blocks * 2^16 + Len(bytes), and only     *)
(* `bytes` is materialised.  blocks > 0 is used only for slices of 2^32    *)
(* bytes and more, which the push buffer rejects before any byte is read.  *)
(* Hashes and the key tweak are free constructors (tuples), i.e. treated   *)
(* as collision free.                                                      *)
(***************************************************************************)
EXTENDS Integers, Sequences, FiniteSets, TLC

\* ------------------------------------------------------------------ bounds
\* short operands have lengths 0..MaxSmallLen
MaxSmallLen == 2
\* operands around a framing threshold t have lengths t - Margin .. t + Margin
Margin == 1
\* internal keys have x coordinates 1..MaxKeyX, either parity
MaxKeyX == 2

\* ------------------------------------------------------- opcodes / bytes
OP_FALSE == 0
OP_PUSHBYTES_0 == 0
OP_PUSHBYTES_1 == 1
OP_PUSHDATA1 == 76
OP_PUSHDATA2 == 77
OP_PUSHDATA4 == 78
OP_IF == 99
OP_ENDIF == 104

\* b"ord"
ORD == <<111, 114, 100>>
\* b"text/plain"
TextPlain == <<116, 101, 120, 116, 47, 112, 108, 97, 105, 110>>
\* b"hello"
Hello == <<104, 101, 108, 108, 111>>

\* ------------------------------------------------------------ Result / Option
Ok(v) == [tag |-> "Ok", val |-> v]
Err(e) == [tag |-> "Err", err |-> e]
\* an expect() that aborts the process
Panic(m) == [tag |-> "Panic", msg |-> m]
Some(v) == [some |-> TRUE, val |-> v]
None == [some |-> FALSE]

\* ------------------------------------------------------------------ slices
Slice(bs) == [blocks |-> 0, bytes |-> bs]
\* s.len() < k, for k <= 2^16
LenLess(s, k) == s.blocks = 0 /\ Len(s.bytes) < k

\* PushBytesBuf::extend_from_slice on an empty buffer: the buffer holds at
\* most 2^32 - 1 bytes; a longer slice is refused with PushBytesError.
PushLimitBlocks == 65536
TooShortLimit(s) ==
    IF LenLess(s, OP_PUSHDATA1) THEN Ok(s) ELSE Err("PushBytesError")
extend_from_slice(s) ==
    IF s.blocks < PushLimitBlocks THEN Ok(s) ELSE Err("PushBytesError")

\* ----------------------------------------------------------- script builder
push_opcode(script, op) == Append(script, op)

\* The length framing Builder::push_slice puts in front of the pushed bytes.
OffByOneFraming(buf) ==
    LET n == Len(buf.bytes) IN
    CASE buf.blocks = 0 /\ n <= OP_PUSHDATA1 -> <<n>>
      [] buf.blocks = 0 /\ n > OP_PUSHDATA1 /\ n < 256 -> <<OP_PUSHDATA1, n>>
      [] buf.blocks = 0 /\ n >= 256 -> <<OP_PUSHDATA2, n % 256, n \div 256>>
      [] OTHER -> <<OP_PUSHDATA4, n % 256, n \div 256,
                    buf.blocks % 256, buf.blocks \div 256>>
push_framing(buf) ==
    LET n == Len(buf.bytes) IN
    CASE buf.blocks = 0 /\ n < OP_PUSHDATA1 -> <<n>>
      [] buf.blocks = 0 /\ n >= OP_PUSHDATA1 /\ n < 256 -> <<OP_PUSHDATA1, n>>
      [] buf.blocks = 0 /\ n >= 256 -> <<OP_PUSHDATA2, n % 256, n \div 256>>
      [] OTHER -> <<OP_PUSHDATA4, n % 256, n \div 256,
                    buf.blocks % 256, buf.blocks \div 256>>

push_slice(script, buf) == script \o push_framing(buf) \o buf.bytes

\* ---------------------------------------------------------------- Taproot
\* LeafVersion::TapScript, the version TaprootBuilder::add_leaf gives a leaf
LeafVersion_TapScript == 192
TAPROOT_CONTROL_MAX_NODE_COUNT == 128

TapLeafHash(script, ver) == <<"TapLeaf", ver, script>>
TapBranchHash(a, b) == <<"TapBranch", {a, b}>>
TapTweak(xonly, root) == <<"TapTweak", xonly, root>>

\* XOnlyPublicKey::from(internal_key.inner): the x coordinate alone
KeepParity(key) == [x |-> key.x, odd |-> key.odd]
XOnlyPublicKey_from(key) == [x |-> key.x]

TaprootBuilder_new == <<>>

\* builder.branch is a sequence of optional nodes, index depth + 1
RECURSIVE Propagate(_, _, _)
Propagate(branch, node, depth) ==
    IF Len(branch) # depth + 1
    THEN Ok([branch |-> branch, node |-> node, depth |-> depth])
    ELSE LET child == branch[Len(branch)]
             rest == SubSeq(branch, 1, Len(branch) - 1) IN
         IF ~child.some
         THEN Ok([branch |-> rest, node |-> node, depth |-> depth])
         ELSE IF depth = 0 THEN Err("OverCompleteTree")
         ELSE Propagate(rest,
                        [hash |-> TapBranchHash(node.hash, child.val.hash),
                         leaves |-> node.leaves \cup child.val.leaves],
                        depth - 1)

insert(branch, node, depth) ==
    IF depth > TAPROOT_CONTROL_MAX_NODE_COUNT THEN Err("InvalidMerkleTreeDepth")
    ELSE IF Len(branch) > depth + 1 THEN Err("NodeNotInDfsOrder")
    ELSE LET p == Propagate(branch, node, depth) IN
         IF p.tag = "Err" THEN p
         ELSE LET b == p.val.branch
                  d == p.val.depth IN
              Ok([i \in 1..(d + 1) |->
                    IF i = d + 1 THEN Some(p.val.node)
                    ELSE IF i <= Len(b) THEN b[i] ELSE None])

add_leaf(branch, depth, script) ==
    insert(branch,
           [hash |-> TapLeafHash(script, LeafVersion_TapScript),
            leaves |-> {[script |-> script, ver |-> LeafVersion_TapScript]}],
           depth)

finalize(branch, internal_key) ==
    IF Len(branch) = 0
    THEN Ok([internal_key |-> internal_key,
             merkle_root |-> None,
             output_key |-> TapTweak(internal_key, None),
             script_map |-> {}])
    ELSE IF Len(branch) > 1 THEN Err("incomplete")
    ELSE LET node == branch[1].val IN
         Ok([internal_key |-> internal_key,
             merkle_root |-> Some(node.hash),
             output_key |-> TapTweak(internal_key, Some(node.hash)),
             script_map |-> node.leaves])

RootFromOutputKey(spend_info) == Some(spend_info.output_key)
merkle_root(spend_info) == spend_info.merkle_root

\* --------------------------------------------------------- create_envelope
\* the branch that decides on the extra opcode in front of the mime push
OverrideOnMime(mime, data) == LenLess(mime, 76)
NeedsOverride(mime, data) == LenLess(data, 76)

\* first argument of add_leaf: the depth of the leaf in the tree
LeafVersionAsDepth == LeafVersion_TapScript
LeafDepth == 0

create_envelope(mime, data, internal_key) ==
    LET mime_buf == extend_from_slice(mime) IN
    IF mime_buf.tag = "Err" THEN Err("Todo") ELSE
    LET data_buf == extend_from_slice(data) IN
    IF data_buf.tag = "Err" THEN Err("Todo") ELSE
    LET b0 == push_opcode(<<>>, OP_FALSE)
        b1 == push_opcode(b0, OP_IF)
        b2 == push_slice(b1, Slice(ORD))
        b3 == push_opcode(b2, OP_PUSHBYTES_1)
        b4 == IF NeedsOverride(mime, data)
              THEN push_opcode(b3, OP_PUSHBYTES_1)
              ELSE b3
        b5 == push_slice(b4, mime_buf.val)
        b6 == push_opcode(b5, OP_PUSHBYTES_0)
        b7 == push_slice(b6, data_buf.val)
        script == push_opcode(b7, OP_ENDIF)
        leaf == add_leaf(TaprootBuilder_new, LeafDepth, script)
    IN  IF leaf.tag = "Err"
        THEN Panic("Ordinals Inscription spending info must always build")
        ELSE LET fin == finalize(leaf.val, XOnlyPublicKey_from(internal_key)) IN
             IF fin.tag = "Err"
             THEN Panic("Ordinals Inscription spending info must always build")
             ELSE Ok([script |-> script, spend_info |-> fin.val])

\* ----------------------------------------------------- OrdinalsInscription
\* Recipient<PublicKey> and Recipient<TaprootScript>
public_key(recipient) == recipient.t
from_pubkey_recipient(recipient, root) ==
    [t |-> [pubkey |-> recipient.t, merkle_root |-> root]]

OrdinalsInscription_new(mime, data, recipient) ==
    LET envelope == create_envelope(mime, data, public_key(recipient)) IN
    IF envelope.tag # "Ok" THEN envelope
    ELSE LET root == merkle_root(envelope.val.spend_info) IN
         IF ~root.some
         THEN Panic("Ordinals envelope not constructed correctly")
         ELSE Ok([envelope |-> envelope.val,
                  recipient |-> from_pubkey_recipient(recipient, root.val)])

taproot_program(self) == self.envelope.script
spend_info(self) == self.envelope.spend_info
recipient_of(self) == self.recipient

\* ------------------------------------------------------------------ inputs
Pattern(n, seed) == [i \in 1..n |-> (seed + 7 * i) % 256]
Around(t) == (t - Margin)..(t + Margin)
\* mime lengths: short ones and those around the OP_PUSHDATA1 switch
MimeLens == (0..MaxSmallLen) \cup Around(76)
\* data lengths: also those around the OP_PUSHDATA2 switch
DataLens == (0..MaxSmallLen) \cup Around(76) \cup Around(256)
\* a slice of exactly 2^32 bytes (content never read)
Huge == [blocks |-> PushLimitBlocks, bytes |-> <<>>]

MimeInputs ==
    {Slice(Pattern(n, 97)) : n \in MimeLens} \cup {Slice(TextPlain), Huge}
DataInputs ==
    {Slice(Pattern(n, 3)) : n \in DataLens}
        \cup {Slice(Hello), Huge}
Keys == [x : 1..MaxKeyX, odd : BOOLEAN]
Recipients == {[t |-> k] : k \in Keys}

\* ------------------------------------------------------------------- state
VARIABLES pc, mime, data, recipient, inscription, claimer, reveal, ret

vars == <<pc, mime, data, recipient, inscription, claimer, reveal, ret>>

Unset == [tag |-> "Unset"]
\* no accessor has returned yet
NoRet == [op |-> "none"]

Init ==
    /\ pc = "idle"
    /\ mime = Unset
    /\ data = Unset
    /\ recipient = Unset
    /\ inscription = Unset
    /\ claimer = Unset
    /\ reveal = Unset
    /\ ret = NoRet

\* commit stage: OrdinalsInscription::new(mime, data, recipient)
New(m, d, r) ==
    /\ pc = "idle"
    /\ mime' = m
    /\ data' = d
    /\ recipient' = r
    /\ inscription' = OrdinalsInscription_new(m, d, r)
    /\ pc' = IF inscription'.tag = "Panic" THEN "aborted" ELSE "commit"
    /\ UNCHANGED <<claimer, reveal, ret>>

\* reveal stage: the claimer rebuilds the envelope with its own internal key
Reveal(k) ==
    /\ pc = "commit"
    /\ claimer' = k
    /\ reveal' = create_envelope(mime, data, k)
    /\ pc' = IF reveal'.tag = "Panic" THEN "aborted" ELSE "reveal"
    /\ UNCHANGED <<mime, data, recipient, inscription, ret>>

GetTaprootProgram ==
    /\ inscription.tag = "Ok"
    /\ ret' = [op |-> "taproot_program", val |-> taproot_program(inscription.val)]
    /\ UNCHANGED <<pc, mime, data, recipient, inscription, claimer, reveal>>

GetSpendInfo ==
    /\ inscription.tag = "Ok"
    /\ ret' = [op |-> "spend_info", val |-> spend_info(inscription.val)]
    /\ UNCHANGED <<pc, mime, data, recipient, inscription, claimer, reveal>>

GetRecipient ==
    /\ inscription.tag = "Ok"
    /\ ret' = [op |-> "recipient", val |-> recipient_of(inscription.val)]
    /\ UNCHANGED <<pc, mime, data, recipient, inscription, claimer, reveal>>

Next ==
    \/ \E m \in MimeInputs, d \in DataInputs, r \in Recipients : New(m, d, r)
    \/ \E k \in Keys : Reveal(k)
    \/ GetTaprootProgram
    \/ GetSpendInfo
    \/ GetRecipient

Spec == Init /\ [][Next]_vars

\* ================================================================ properties
Built == inscription.tag = "Ok"
Script == inscription.val.envelope.script
SpendInfo == inscription.val.envelope.spend_info
\* the operand is longer than a push can carry (2^32 bytes or more)
TooLarge(s) == s.blocks >= 65536

\* Standard minimal push of a byte string shorter than 2^16 bytes.
LenField(n) == IF n < 256 THEN <<n>> ELSE <<n % 256, n \div 256>>
MinimalPush(bs) ==
    LET n == Len(bs) IN
    IF n <= 75 THEN <<n>> \o bs
    ELSE IF n <= 255 THEN <<76, n>> \o bs
    ELSE <<77, n % 256, n \div 256>> \o bs

\* OP_FALSE OP_IF PUSH "ord" and the separator byte 1
Header == <<0, 99, 3, 111, 114, 100, 1>>

\* Standard script decoding: a byte 0..75 pushes that many following bytes,
\* OP_PUSHDATA1/2/4 read an explicit little-endian length, anything else is
\* a plain opcode; a push running past the end of the script is "bad".
Instr(k, o, bs) == [kind |-> k, op |-> o, bytes |-> bs]
PushOf(bs) == Instr("push", 0, bs)
OpOf(o) == Instr("op", o, <<>>)
RECURSIVE Decode(_, _)
RECURSIVE TakePush(_, _, _)
TakePush(s, from, n) ==
    IF from + n - 1 > Len(s) THEN <<Instr("bad", 0, <<>>)>>
    ELSE <<PushOf(SubSeq(s, from, from + n - 1))>> \o Decode(s, from + n)
Decode(s, i) ==
    IF i > Len(s) THEN <<>>
    ELSE LET b == s[i] IN
         IF b <= 75 THEN TakePush(s, i + 1, b)
         ELSE IF b = 76 THEN
             IF i + 1 > Len(s) THEN <<Instr("bad", 0, <<>>)>>
             ELSE TakePush(s, i + 2, s[i + 1])
         ELSE IF b = 77 THEN
             IF i + 2 > Len(s) THEN <<Instr("bad", 0, <<>>)>>
             ELSE TakePush(s, i + 3, s[i + 1] + 256 * s[i + 2])
         ELSE IF b = 78 THEN
             IF i + 4 > Len(s) THEN <<Instr("bad", 0, <<>>)>>
             ELSE TakePush(s, i + 5, s[i + 1] + 256 * s[i + 2]
                                      + 65536 * s[i + 3] + 16777216 * s[i + 4])
         ELSE <<OpOf(b)>> \o Decode(s, i + 1)

\* C1: every built script is exactly OP_FALSE OP_IF PUSH "ord" [1]
\* OP_PUSHBYTES_1 PUSH mime [0] PUSH data OP_ENDIF, for all mime and data.
C1_ExactLayout ==
    Built =>
        Script = Header \o <<1>> \o MinimalPush(mime.bytes) \o <<0>>
                    \o MinimalPush(data.bytes) \o <<104>>

\* C2: in every built script the mime's length field and bytes are
\* immediately preceded by a push-data opcode of their own, placed after the
\* separator, whatever the length of mime.
C2_MimeAlwaysPrefixed ==
    Built =>
        LET n == Len(mime.bytes)
            first == Len(Script) - Len(MinimalPush(data.bytes)) - n - 1
            pre == first - Len(LenField(n)) - 1
        IN  /\ pre >= 8
            /\ SubSeq(Script, 1, 7) = Header
            /\ Script[pre] \in {OP_PUSHBYTES_1, OP_PUSHDATA1, OP_PUSHDATA2,
                                OP_PUSHDATA4}
            /\ SubSeq(Script, pre + 1, first - 1) = LenField(n)
            /\ SubSeq(Script, first, first + n - 1) = mime.bytes

C4_FailsIffTooLarge ==
    pc # "idle" =>
        /\ inscription.tag \in {"Ok", "Err"}
        /\ inscription.tag = "Err" <=> (TooLarge(mime) \/ TooLarge(data))
        /\ inscription.tag = "Err" => inscription = [tag |-> "Err", err |-> "Todo"]
C4_Witness ==
    /\ pc # "idle"
    /\ TooLarge(data)
    /\ ~TooLarge(mime)
    /\ inscription.tag = "Err"

\* C5: no expect() aborts: whenever push encoding accepts mime and data, the
\* leaf is added, the tree is finalized and the Merkle root is present, at
\* the commit stage and at the reveal stage, for every internal key.
C5_NoAbort ==
    /\ pc # "aborted"
    /\ inscription.tag # "Panic"
    /\ reveal.tag # "Panic"
    /\ (pc # "idle" /\ ~TooLarge(mime) /\ ~TooLarge(data)) =>
            Built /\ SpendInfo.merkle_root.some
    /\ (pc = "reveal" /\ ~TooLarge(mime) /\ ~TooLarge(data)) =>
            reveal.tag = "Ok" /\ reveal.val.spend_info.merkle_root.some
C5_Witness ==
    /\ pc = "reveal"
    /\ Built
    /\ reveal.tag = "Ok"
    /\ claimer # recipient.t

\* the accessors hand out the stored fields
AccessorsFaithful ==
    /\ ret.op = "taproot_program" => ret.val = Script
    /\ ret.op = "spend_info" => ret.val = SpendInfo
    /\ ret.op = "recipient" =>
            ret.val = inscription.val.recipient
Consistent(ver) ==
    /\ SpendInfo.script_map = {[script |-> Script, ver |-> ver]}
    /\ SpendInfo.merkle_root = Some(TapLeafHash(Script, ver))
    /\ SpendInfo.internal_key = [x |-> recipient.t.x]
    /\ inscription.val.recipient =
            [t |-> [pubkey |-> recipient.t,
                    merkle_root |-> TapLeafHash(Script, ver)]]
    /\ AccessorsFaithful

\* C6 as stated: the only leaf of spend_info() is taproot_program() at leaf
\* version 0, keyed by the x-only recipient key, and recipient() is bound to
\* its Merkle root.
C6_LeafVersionZero == Built => Consistent(0)
\* C6 amended: the only leaf is taproot_program() at depth 0 (the leaf hash
\* is the Merkle root) with the tapscript leaf version 0xc0, keyed by the
\* x-only recipient key; recipient() is the caller's recipient bound to that
\* Merkle root, and the accessors return the stored values.
C6_SingleTapscriptLeaf == Built => Consistent(192)
C6_Witness ==
    /\ Built
    /\ ret.op = "recipient"
    /\ recipient.t.odd

\* C8 as stated: with a claimer key different from the recipient key the
\* script is the same and the Taproot output key differs.
C8_AnyOtherKeyChangesOutput ==
    (pc = "reveal" /\ Built /\ reveal.tag = "Ok" /\ claimer # recipient.t) =>
        /\ reveal.val.script = Script
        /\ reveal.val.spend_info.output_key # SpendInfo.output_key
\* C8 amended: the script is the same for every claimer key, and the Taproot
\* output key differs exactly when the x coordinates of the two keys differ.
C8_XOnlySensitivity ==
    (pc = "reveal" /\ Built /\ reveal.tag = "Ok") =>
        /\ reveal.val.script = Script
        /\ reveal.val.spend_info.merkle_root = SpendInfo.merkle_root
        /\ (reveal.val.spend_info.output_key # SpendInfo.output_key)
                <=> (claimer.x # recipient.t.x)
C8_Witness ==
    /\ pc = "reveal"
    /\ Built
    /\ reveal.tag = "Ok"
    /\ claimer.x # recipient.t.x
    /\ reveal.val.spend_info.output_key # SpendInfo.output_key

\* C9: decoding every built script with the standard push rules gives
\* OP_FALSE, OP_IF, push "ord", push [1], push mime, empty push, push data,
\* OP_ENDIF.
C9_RoundTrip ==
    Built =>
        Decode(Script, 1) =
            <<PushOf(<<>>), OpOf(OP_IF), PushOf(ORD), PushOf(<<1>>),
              PushOf(mime.bytes), PushOf(<<>>), PushOf(data.bytes),
              OpOf(OP_ENDIF)>>

\* C10: the data push is a single length byte then the data for lengths
\* 0..75, OP_PUSHDATA1 then a length byte for 76..255, OP_PUSHDATA2 then two
\* length bytes above; it follows the empty-push separator directly and
\* OP_ENDIF follows it directly.
C10_DataFraming ==
    Built =>
        LET n == Len(data.bytes)
            framing == IF n <= 75 THEN <<n>>
                       ELSE IF n <= 255 THEN <<OP_PUSHDATA1, n>>
                       ELSE <<OP_PUSHDATA2, n % 256, n \div 256>>
            start == Len(Script) - n - Len(framing)
            ov == IF n < 76 THEN 1 ELSE 0
        IN  /\ start - 1 = 7 + ov + Len(MinimalPush(mime.bytes)) + 1
            /\ Script[start - 1] = OP_PUSHBYTES_0
            /\ SubSeq(Script, start, Len(Script)) =
                    framing \o data.bytes \o <<OP_ENDIF>>
C10_Witness ==
    /\ Built
    /\ Len(data.bytes) = 76
    /\ Script[Len(Script) - 78] = OP_PUSHDATA1
    /\ Script[Len(Script) - 77] = 76

====
